---- MODULE Spec2Model ----
(***************************************************************************)
(* Dominator analysis of a control flow graph                              *)
(* (libyul/backends/evm/Dominator.h): the Lengauer-Tarjan algorithm with   *)
(* the bucket step moved to the head of the loop, the dominator tree, and  *)
(* the queries dominates and dominatorsOf.                                 *)
(*                                                                         *)
(* Vertex is the template parameter of the class.  The code converts a     *)
(* size_t to a Vertex (line 215) and indexes arrays with a Vertex          *)
(* (line 224), so Vertex is modelled as a natural number and the           *)
(* value-initialised Vertex{} of m_vertex(_numVertices) is 0.              *)
(***************************************************************************)
EXTENDS Integers, Sequences, FiniteSets, TLC

\* Number of vertex identities the caller's graph may use.
MaxV == 4
\* Largest number of edges of the caller's graph.
MaxEdges == 5

\* std::numeric_limits<size_t>::max(), the "undefined" index.  It is only
\* ever compared with indices, so any value above every index models it.
Undef == 2147483647

Vertex == 0 .. (MaxV - 1)
\* The entries tried: the vertex that equals Vertex{} and one that does not
\* (the identities other than 0 are interchangeable).
Entries == {0, 1}
\* Vertex{} : the value of the slots of m_vertex(_numVertices) never assigned.
DefaultVertex == 0
\* The two stable enumeration orders of ForEachSuccessor that are modelled.
Orders == {"asc", "desc"}

VARIABLES
    pc,            \* "graph", "done", "aborted"
    succ,          \* the caller's graph: vertex -> set of successors
    entry,         \* _entry
    order,         \* the order in which ForEachSuccessor enumerates
    numVertices,   \* _numVertices
    m_vertex, m_vertexIndex, m_immediateDominator, m_dominatorTree,
    semi, parent, ancestor, label, predecessors, bucket, idom, dfIdx,
    passLog,       \* the values of w the loop of line 213 has handled
    oob,           \* arrays that were accessed outside [0, numVertices)
    parentLog,     \* for every write of parent in dfs: was the successor already indexed
    ret            \* the last query and what it returned

graphVars == <<succ, entry, order>>
memberVars == <<m_vertex, m_vertexIndex, m_immediateDominator, m_dominatorTree>>
localVars == <<semi, parent, ancestor, label, predecessors, bucket, idom, dfIdx>>
logVars == <<passLog, oob, parentLog>>
vars == <<pc, graphVars, numVertices, memberVars, localVars, logVars, ret>>

----------------------------------------------------------------------------
(* Helpers for std::map and std::vector *)

Min(S) == CHOOSE x \in S : \A y \in S : x <= y
Max(S) == CHOOSE x \in S : \A y \in S : x >= y

RECURSIVE SetToSeq(_, _)
\* The elements of S in the enumeration order ord.
SetToSeq(S, ord) ==
    IF S = {} THEN <<>>
    ELSE LET x == IF ord = "asc" THEN Min(S) ELSE Max(S)
         IN  <<x>> \o SetToSeq(S \ {x}, ord)

\* std::map::operator[] : the mapped value, 0 (value-initialised) when absent ...
MapGet(m, k) == IF k \in DOMAIN m THEN m[k] ELSE 0
\* ... and the map afterwards: operator[] inserts an absent key.
MapTouch(m, k) == IF k \in DOMAIN m THEN m ELSE [x \in DOMAIN m \cup {k} |-> IF x = k THEN 0 ELSE m[x]]
\* m[k] = v
MapPut(m, k, v) == [x \in DOMAIN m \cup {k} |-> IF x = k THEN v ELSE m[x]]

EmptyMap == [x \in {} |-> 0]

\* ForEachSuccessor{}(_v, visit): the successors of v in the caller's order.
ForEachSuccessor(g, ord, v) == SetToSeq(g[v], ord)

\* std::vector<T>(n, x)
Arr(n, x) == [i \in 0 .. (n - 1) |-> x]

----------------------------------------------------------------------------
(* The caller's graph *)

RECURSIVE ReachFrom(_, _, _)
\* The vertices reachable in g from the vertices "frontier", never entering "seen".
ReachFrom(g, frontier, seen) ==
    IF frontier = {} THEN seen
    ELSE LET nxt == (UNION {g[x] : x \in frontier}) \ (seen \cup frontier)
         IN  ReachFrom(g, nxt, seen \cup frontier)

\* The vertices reachable from e in g.
Reachable(g, e) == ReachFrom(g, {e}, {})

NumEdges(g) == Cardinality({e \in Vertex \X Vertex : e[2] \in g[e[1]]})

----------------------------------------------------------------------------
(* lengauerTarjanDominator, step 1: the depth-first search *)

RECURSIVE dfs(_, _, _, _, _, _)
RECURSIVE dfsSuccessors(_, _, _, _, _, _, _)

\* The lambda dfs: d holds the captured locals and members; garbage says
\* whether the word read at semi[numVertices] equals the "undefined" value.
dfs(d, v, g, ord, nv, garbage) ==
    IF v \in d.visited THEN d
    ELSE LET i == d.dfIdx
             inRange == i < nv
             d1 == [d EXCEPT !.visited = @ \cup {v},
                             !.m_vertex = IF inRange THEN [@ EXCEPT ![i] = v] ELSE @,
                             !.m_vertexIndex = MapPut(@, v, i),
                             !.semi = IF inRange THEN [@ EXCEPT ![i] = i] ELSE @,
                             !.label = IF inRange THEN [@ EXCEPT ![i] = i] ELSE @,
                             !.oob = IF inRange THEN @ ELSE @ \cup {"m_vertex", "semi", "label"},
                             !.dfIdx = i + 1]
         IN  dfsSuccessors(d1, v, ForEachSuccessor(g, ord, v), g, ord, nv, garbage)

\* The visitor passed to ForEachSuccessor (lines 201-208), applied to the
\* successors ws of v in turn.
dfsSuccessors(d, v, ws, g, ord, nv, garbage) ==
    IF ws = <<>> THEN d
    ELSE LET w == Head(ws)
             i == d.dfIdx
             inRange == i < nv
             \* line 202 reads semi[dfIdx]; dfIdx = numVertices once every slot is used
             isUndef == IF inRange THEN d.semi[i] = Undef ELSE garbage
             d0 == [d EXCEPT !.oob = IF inRange THEN @ ELSE @ \cup {"semi"}]
             d1 == IF isUndef
                   THEN [d0 EXCEPT !.parent = IF inRange
                                                THEN [@ EXCEPT ![i] = MapGet(d.m_vertexIndex, v)]
                                                ELSE @,
                                   !.oob = IF inRange THEN @ ELSE @ \cup {"parent"},
                                   !.parentLog = @ \cup {w \in d.visited}]
                   ELSE d0
             d2 == IF isUndef THEN dfs(d1, w, g, ord, nv, garbage) ELSE d1
             wIdx == MapGet(d2.m_vertexIndex, w)
             vIdx == MapGet(d2.m_vertexIndex, v)
             d3 == [d2 EXCEPT !.m_vertexIndex = MapTouch(MapTouch(@, w), v),
                              !.predecessors = IF wIdx < nv
                                               THEN [@ EXCEPT ![wIdx] = @ \cup {vIdx}]
                                               ELSE @,
                              !.oob = IF wIdx < nv THEN @ ELSE @ \cup {"predecessors"}]
         IN  dfsSuccessors(d3, v, Tail(ws), g, ord, nv, garbage)

\* The locals and members as lines 44 and 148-191 leave them.
dfsStart(nv) ==
    [visited |-> {}, m_vertex |-> Arr(nv, DefaultVertex), m_vertexIndex |-> EmptyMap,
     semi |-> Arr(nv, Undef), parent |-> Arr(nv, Undef), label |-> Arr(nv, 0),
     predecessors |-> Arr(nv, {}), dfIdx |-> 0, oob |-> {}, parentLog |-> {}]

----------------------------------------------------------------------------
(* The link/eval forest *)

RECURSIVE compressPath(_, _, _, _)
\* compressPath(_ancestor, _label, _semi, _v): the arrays it leaves.
compressPath(anc, lab, sem, v) ==
    LET u == anc[v]
    IN  IF anc[u] # Undef
        THEN LET r == compressPath(anc, lab, sem, u)
                 lab2 == IF sem[r.label[u]] < sem[r.label[v]]
                         THEN [r.label EXCEPT ![v] = r.label[u]]
                         ELSE r.label
             IN  [ancestor |-> [r.ancestor EXCEPT ![v] = r.ancestor[u]], label |-> lab2]
        ELSE [ancestor |-> anc, label |-> lab]

\* eval without the path compression: it returns _v itself.
evalWithoutCompress(anc, lab, sem, v) == [ancestor |-> anc, label |-> lab, u |-> v]

\* The lambda eval: the arrays it leaves and the index u it returns.
eval(anc, lab, sem, v) ==
    IF anc[v] # Undef
    THEN LET r == compressPath(anc, lab, sem, v)
         IN  [ancestor |-> r.ancestor, label |-> r.label, u |-> r.label[v]]
    ELSE [ancestor |-> anc, label |-> lab, u |-> v]

\* The lambda link.
link(anc, p, w) == [anc EXCEPT ![w] = p]

----------------------------------------------------------------------------
(* lengauerTarjanDominator, steps 2 and 3 *)

RECURSIVE processBucket(_, _, _)
\* The for_each over bucket[w] of lines 223-231, for the elements vs.
processBucket(s, vs, w) ==
    IF vs = <<>> THEN s
    ELSE LET v == Head(vs)
             e == eval(s.ancestor, s.label, s.semi, v)
             u == e.u
         IN  processBucket([s EXCEPT !.ancestor = e.ancestor, !.label = e.label,
                                     !.idom[v] = IF s.semi[u] < s.semi[v] THEN u ELSE w],
                           Tail(vs), w)

RECURSIVE processPredecessors(_, _, _)
\* The loop over predecessors[w] of lines 234-239, for the elements vs.
processPredecessors(s, vs, w) ==
    IF vs = <<>> THEN s
    ELSE LET v == Head(vs)
             e == eval(s.ancestor, s.label, s.semi, v)
             u == e.u
         IN  processPredecessors([s EXCEPT !.ancestor = e.ancestor, !.label = e.label,
                                           !.semi[w] = IF s.semi[u] < @ THEN s.semi[u] ELSE @],
                                 Tail(vs), w)

\* The body of the loop of line 213 for the slot i of m_vertex.
loopBody(s, mv, par, preds, i, nv) ==
    LET w == MapGet(s.m_vertexIndex, mv[i])
        s0 == [s EXCEPT !.m_vertexIndex = MapTouch(@, mv[i]), !.passLog = Append(@, w)]
        s1 == processBucket(s0, s0.bucket[w], w)
        \* std::set<size_t> iterates in increasing order
        s2 == processPredecessors(s1, SetToSeq(preds[w], "asc"), w)
        sw == s2.semi[w]
        s3 == IF sw < nv
              THEN [s2 EXCEPT !.bucket[sw] = Append(@, w)]
              ELSE [s2 EXCEPT !.oob = @ \cup {"bucket"}]
    IN  [s3 EXCEPT !.ancestor = link(@, par[w], w)]

RECURSIVE semiLoopSkippingEntry(_, _, _, _, _, _)
\* semiLoop stopping before slot 0, as a loop "from n-1 down to 1" would.
semiLoopSkippingEntry(s, mv, par, preds, i, nv) ==
    IF i < 1 THEN s
    ELSE semiLoopSkippingEntry(loopBody(s, mv, par, preds, i, nv), mv, par, preds, i - 1, nv)

RECURSIVE semiLoop(_, _, _, _, _, _)
\* The loop of line 213 from the slot i of m_vertex down to slot 0
\* (rbegin() to rend()).
semiLoop(s, mv, par, preds, i, nv) ==
    IF i < 0 THEN s
    ELSE semiLoop(loopBody(s, mv, par, preds, i, nv), mv, par, preds, i - 1, nv)

\* step4 with the assignment of line 250 left out.
step4WithoutFixUp(s, mv, sem, i, nv) == s

RECURSIVE step4(_, _, _, _, _)
\* The loop of lines 246-251 from the slot i of m_vertex on.
step4(s, mv, sem, i, nv) ==
    IF i >= nv THEN s
    ELSE LET w == MapGet(s.m_vertexIndex, mv[i])
             s0 == [s EXCEPT !.m_vertexIndex = MapTouch(@, mv[i])]
             s1 == IF s0.idom[w] # sem[w]
                   THEN IF s0.idom[w] < nv
                        THEN [s0 EXCEPT !.idom[w] = s0.idom[s0.idom[w]]]
                        ELSE [s0 EXCEPT !.oob = @ \cup {"idom"}]
                   ELSE s0
         IN  step4(s1, mv, sem, i + 1, nv)

----------------------------------------------------------------------------
(* lengauerTarjanDominator as a whole *)

\* Steps 2 and 3 on the outcome d of the depth-first search: the locals of
\* lines 149-160 and the loop of line 213 over every slot of m_vertex.
semiPass(d, nv) ==
    semiLoop([m_vertexIndex |-> d.m_vertexIndex, semi |-> d.semi,
              ancestor |-> Arr(nv, Undef), label |-> d.label,
              bucket |-> Arr(nv, <<>>), idom |-> Arr(nv, Undef),
              oob |-> d.oob, passLog |-> <<>>],
             d.m_vertex, d.parent, d.predecessors, nv - 1, nv)

\* Step 4 on the outcome p of the pass: idom[0] = 0 and the loop of line 246.
fixUp(d, p, nv) ==
    step4([m_vertexIndex |-> p.m_vertexIndex, idom |-> [p.idom EXCEPT ![0] = 0],
           oob |-> p.oob], d.m_vertex, p.semi, 1, nv)

\* The members lengauerTarjanDominator has filled, its locals when it
\* returns, and idom, which it returns.
returned(d, p, f) ==
    [m_vertex |-> d.m_vertex, m_vertexIndex |-> f.m_vertexIndex, idom |-> f.idom,
     semi |-> p.semi, parent |-> d.parent, ancestor |-> p.ancestor, label |-> p.label,
     predecessors |-> d.predecessors, bucket |-> p.bucket, dfIdx |-> d.dfIdx,
     passLog |-> p.passLog, oob |-> f.oob, parentLog |-> d.parentLog]

\* Steps 2 to 4 of lengauerTarjanDominator on the outcome d of the search.
afterDfs(d, nv) ==
    LET p == semiPass(d, nv)
        f == fixUp(d, p, nv)
    IN  returned(d, p, f)

\* lengauerTarjanDominator(_entry, numVertices) on the graph g, for a
\* ForEachSuccessor that enumerates in the order ord.
lengauerTarjanDominator(g, e, nv, ord, garbage) ==
    afterDfs(dfs(dfsStart(nv), e, g, ord, nv, garbage), nv)

----------------------------------------------------------------------------
(* The dominator tree and the queries *)

RECURSIVE buildDominatorTree(_, _, _)
\* The loop of lines 120-121 from i on.
buildDominatorTree(tree, idm, i) ==
    IF i >= Cardinality(DOMAIN idm) THEN tree
    ELSE buildDominatorTree(MapPut(tree, idm[i], Append(IF idm[i] \in DOMAIN tree
                                                       THEN tree[idm[i]] ELSE <<>>, i)),
                            idm, i + 1)

\* What a query hands back: "returned" with a value, or the loop never ends
\* ("diverges"), or it reads m_immediateDominator outside its range ("oob").
Returned(x) == [status |-> "returned", val |-> x]
Diverges == [status |-> "diverges", val |-> FALSE]
OutOfRange == [status |-> "oob", val |-> FALSE]

RECURSIVE dominatesWalk(_, _, _, _)
\* The loop of lines 83-91 from idomIdx on; seen holds the indices already
\* passed.
dominatesWalk(idm, aIdx, idomIdx, seen) ==
    IF idomIdx = 0 THEN Returned(idomIdx = aIdx)
    ELSE IF idomIdx = aIdx THEN Returned(TRUE)
    ELSE IF idomIdx \in seen THEN Diverges
    ELSE IF idomIdx \notin DOMAIN idm THEN OutOfRange
    ELSE dominatesWalk(idm, aIdx, idm[idomIdx], seen \cup {idomIdx})

\* dominates(_a, _b): what it returns.
dominates(idx, idm, a, b) ==
    LET aIdx == MapGet(idx, a)
        bIdx == MapGet(idx, b)
    IN  IF aIdx = bIdx THEN Returned(TRUE)
        ELSE dominatesWalk(idm, aIdx, idm[bIdx], {})

RECURSIVE dominatorsWalk(_, _, _, _, _)
\* The loop of lines 106-110.
dominatorsWalk(mv, idm, dominators, idomIdx, seen) ==
    IF idomIdx = 0 THEN Returned(dominators)
    ELSE IF idomIdx \in seen THEN Diverges
    ELSE IF idomIdx \notin DOMAIN idm THEN OutOfRange
    ELSE dominatorsWalk(mv, idm, Append(dominators, mv[idomIdx]), idm[idomIdx],
                        seen \cup {idomIdx})

\* dominatorsOf(_v): what it returns.
dominatorsOf(mv, idx, idm, v) ==
    LET dominators == <<mv[0]>>
        idomIdx == idm[MapGet(idx, v)]
    IN  IF idomIdx = 0 THEN Returned(dominators)
        ELSE dominatorsWalk(mv, idm, dominators, idomIdx, {})

----------------------------------------------------------------------------
Init ==
    /\ pc = "graph"
    /\ succ = [v \in Vertex |-> {}]
    /\ entry \in Entries
    /\ order = "asc"
    /\ numVertices = 0
    /\ m_vertex = Arr(0, DefaultVertex)
    /\ m_vertexIndex = EmptyMap
    /\ m_immediateDominator = Arr(0, Undef)
    /\ m_dominatorTree = EmptyMap
    /\ semi = Arr(0, Undef) /\ parent = Arr(0, Undef) /\ ancestor = Arr(0, Undef)
    /\ label = Arr(0, 0) /\ predecessors = Arr(0, {}) /\ bucket = Arr(0, <<>>)
    /\ idom = Arr(0, Undef) /\ dfIdx = 0
    /\ passLog = <<>> /\ oob = {} /\ parentLog = {}
    /\ ret = [op |-> "none", a |-> 0, b |-> 0, absent |-> {}, status |-> "none", val |-> FALSE]

\* The caller adds the edge u -> v to the control flow graph before the
\* analysis.  Only edges that leave a vertex reachable from the entry are
\* added: the analysis never enumerates the others.
AddEdge(u, v) ==
    /\ pc = "graph"
    /\ v \notin succ[u]
    /\ NumEdges(succ) < MaxEdges
    /\ u \in Reachable(succ, entry)
    /\ succ' = [succ EXCEPT ![u] = @ \cup {v}]
    /\ UNCHANGED <<pc, entry, order, numVertices, memberVars, localVars, logVars, ret>>


\* The constructor returns: lengauerTarjanDominator, whose search ended as
\* d, has filled m_vertex and m_vertexIndex and returned
\* m_immediateDominator, and the body has built the tree.  The locals are
\* kept as the function leaves them.
Returns(d, nv, ord) ==
    \E p \in {semiPass(d, nv)} : \E f \in {fixUp(d, p, nv)} : \E r \in {returned(d, p, f)} :
        /\ pc' = "done"
        /\ numVertices' = nv
        /\ order' = ord
        /\ m_vertex' = r.m_vertex
        /\ m_vertexIndex' = r.m_vertexIndex
        /\ m_immediateDominator' = r.idom
        /\ m_dominatorTree' = buildDominatorTree(EmptyMap, r.idom, 1)
        /\ semi' = r.semi /\ parent' = r.parent /\ ancestor' = r.ancestor
        /\ label' = r.label /\ predecessors' = r.predecessors
        /\ bucket' = r.bucket /\ idom' = r.idom /\ dfIdx' = r.dfIdx
        /\ passLog' = r.passLog /\ oob' = r.oob /\ parentLog' = r.parentLog

\* The constructor stops at the read of semi[numVertices]: operator[] of a
\* build with checked containers.  No analyzer exists.
Aborts(d, nv, ord) ==
    /\ pc' = "aborted"
    /\ numVertices' = nv
    /\ order' = ord
    /\ oob' = d.oob /\ parentLog' = d.parentLog
    /\ UNCHANGED <<memberVars, localVars, passLog>>

\* Dominator(_entry, _numVertices), for a ForEachSuccessor that enumerates
\* in the order ord and _numVertices at least the number of reachable
\* vertices.  When the search never reads semi[numVertices] the constructor
\* returns.  When it does, any of three things happens: the word read
\* differs from the undefined value, the word equals it, or the read is
\* checked and stops the program.
Construct(nv, ord) ==
    /\ pc = "graph"
    /\ nv >= Cardinality(Reachable(succ, entry))
    /\ \E d \in {dfs(dfsStart(nv), entry, succ, ord, nv, FALSE)} :
           \/ Returns(d, nv, ord)
           \/ d.oob # {} /\ Aborts(d, nv, ord)
           \/ /\ d.oob # {}
              /\ \E d1 \in {dfs(dfsStart(nv), entry, succ, ord, nv, TRUE)} : Returns(d1, nv, ord)
    /\ UNCHANGED <<succ, entry, ret>>

\* A call dominates(a, b) on the constructed analyzer.  ret.absent keeps the
\* arguments that m_vertexIndex did not hold when the call was made.
Dominates(a, b) ==
    /\ pc = "done"
    /\ m_vertexIndex' = MapTouch(MapTouch(m_vertexIndex, a), b)
    /\ \E r \in {dominates(m_vertexIndex, m_immediateDominator, a, b)} :
          ret' = [op |-> "dominates", a |-> a, b |-> b,
                  absent |-> {a, b} \ DOMAIN m_vertexIndex,
                  status |-> r.status, val |-> r.val]
    /\ UNCHANGED <<pc, graphVars, numVertices, m_vertex, m_immediateDominator, m_dominatorTree,
                   localVars, logVars>>

\* A call dominatorsOf(v) on the constructed analyzer.
DominatorsOf(v) ==
    /\ pc = "done"
    /\ m_vertexIndex' = MapTouch(m_vertexIndex, v)
    /\ \E r \in {dominatorsOf(m_vertex, m_vertexIndex, m_immediateDominator, v)} :
          ret' = [op |-> "dominatorsOf", a |-> v, b |-> v,
                  absent |-> {v} \ DOMAIN m_vertexIndex,
                  status |-> r.status, val |-> r.val]
    /\ UNCHANGED <<pc, graphVars, numVertices, m_vertex, m_immediateDominator, m_dominatorTree,
                   localVars, logVars>>

\* The construction of an analyzer for a graph of the caller.
Next ==
    \/ \E u, v \in Vertex : AddEdge(u, v)
    \/ \E nv \in 1 .. MaxV, ord \in Orders : Construct(nv, ord)

Spec == Init /\ [][Next]_vars

\* The construction followed by any sequence of queries.
NextQ ==
    \/ Next
    \/ \E a, b \in Vertex : Dominates(a, b)
    \/ \E v \in Vertex : DominatorsOf(v)

SpecQ == Init /\ [][NextQ]_vars

----------------------------------------------------------------------------
(* Reference definitions on the caller's graph *)

\* The vertices reachable from the entry.
ReachableSet == Reachable(succ, entry)
\* n, the number of reachable vertices.
NumReachable == Cardinality(ReachableSet)

\* Every path from the entry to b passes through a.
RefDominates(a, b) ==
    \/ a = b
    \/ b \notin (ReachFrom(succ, {entry} \ {a}, {a}) \ {a})

\* The strict dominators of v.
StrictDominators(v) == {a \in ReachableSet \ {v} : RefDominates(a, v)}

\* The strict dominators of every reachable vertex.
StrictDominatorSets == [v \in ReachableSet |-> StrictDominators(v)]

\* d is the immediate dominator of v, given the strict dominators sd of
\* every vertex: a strict dominator of v that every other strict dominator
\* of v dominates, and the only such vertex.
IsImmediateDominatorIn(sd, d, v) ==
    /\ d \in sd[v]
    /\ \A a \in sd[v] \ {d} : a \in sd[d]
    /\ \A x \in sd[v] \ {d} : \E a \in sd[v] \ {x} : a \notin sd[x]

IsImmediateDominator(d, v) == IsImmediateDominatorIn(StrictDominatorSets, d, v)

\* The immediate-dominator relation over vertex identities that the arrays
\* mv and idm give for the indices 1 .. n-1.
IdomRelation(mv, idm, n) == {<<mv[i], IF idm[i] \in DOMAIN mv THEN mv[idm[i]] ELSE Undef>> : i \in 1 .. (n - 1)}

Constructed == pc = "done"

----------------------------------------------------------------------------
(* C1 *)

\* C1: when numVertices equals the number of reachable vertices, for every
\* DFS index i in [1, n) immediateDominators()[i] is the DFS index of the
\* immediate dominator of vertex[i] by the reference definition, and
\* immediateDominators()[0] = 0.
C1_IdomIsImmediateDominator ==
    (Constructed /\ numVertices = NumReachable) =>
        LET sd == StrictDominatorSets
        IN  /\ m_immediateDominator[0] = 0
            /\ \A i \in 1 .. (numVertices - 1) :
                  /\ m_immediateDominator[i] \in 0 .. (numVertices - 1)
                  /\ IsImmediateDominatorIn(sd, m_vertex[m_immediateDominator[i]], m_vertex[i])

\* C1 witness: an analyzer of a graph with four reachable vertices in which
\* the immediate dominator of some vertex is not its semidominator, so that
\* step 4 had to change idom.
C1_Witness ==
    /\ Constructed /\ numVertices = NumReachable /\ numVertices = 4
    /\ \E i \in 1 .. 3 : m_immediateDominator[i] # semi[i]
    /\ \A i \in 1 .. 3 : IsImmediateDominator(m_vertex[m_immediateDominator[i]], m_vertex[i])

----------------------------------------------------------------------------
(* C8 *)

----------------------------------------------------------------------------
(* C7 *)

RECURSIVE ReachesRoot(_, _, _)
\* Following idm from i reaches 0 within fuel steps.
ReachesRoot(idm, i, fuel) ==
    IF i = 0 THEN TRUE
    ELSE IF fuel = 0 \/ i \notin DOMAIN idm THEN FALSE
    ELSE ReachesRoot(idm, idm[i], fuel - 1)

\* The number of times i occurs as a child in the tree.
TimesChild(tree, i) ==
    Cardinality({<<k, j>> \in {<<k, j>> \in (DOMAIN tree) \X (1 .. MaxV) : j <= Len(tree[k])} :
                    tree[k][j] = i})

\* C7: for every numVertices >= the number of reachable vertices,
\* dominatorTree() is a tree rooted at index 0 that spans exactly the
\* reachable vertices: keys and children are DFS indices of reachable
\* vertices, every non-entry index i occurs exactly once, as a child of
\* immediateDominators()[i], 0 is no one's child, and following parents
\* reaches 0.
C7_TreeSpansReachable ==
    Constructed =>
        /\ \A k \in DOMAIN m_dominatorTree :
              /\ k \in 0 .. (NumReachable - 1)
              /\ \A j \in 1 .. Len(m_dominatorTree[k]) :
                    m_dominatorTree[k][j] \in 1 .. (NumReachable - 1)
        /\ \A i \in 1 .. (NumReachable - 1) :
              /\ TimesChild(m_dominatorTree, i) = 1
              /\ m_immediateDominator[i] \in DOMAIN m_dominatorTree
              /\ \E j \in 1 .. Len(m_dominatorTree[m_immediateDominator[i]]) :
                    m_dominatorTree[m_immediateDominator[i]][j] = i
              /\ ReachesRoot(m_immediateDominator, i, NumReachable)
        /\ TimesChild(m_dominatorTree, 0) = 0

----------------------------------------------------------------------------
(* C9 *)

RECURSIVE Descending(_, _)
\* <<hi, hi-1, ..., lo>>
Descending(hi, lo) == IF hi < lo THEN <<>> ELSE <<hi>> \o Descending(hi - 1, lo)

----------------------------------------------------------------------------
(* C10 *)

\* C10: during construction with numVertices >= the number of reachable
\* vertices every access to semi, parent, label, ancestor, predecessors,
\* bucket, idom and m_vertex uses an index in [0, numVertices), and the
\* search writes parent only for a successor that has no DFS index yet.
C10_IndicesInRange ==
    /\ oob = {}
    /\ TRUE \notin parentLog

----------------------------------------------------------------------------
(* C2 - C6: the queries *)

\* C2: for reachable a and b, dominates(a, b) returns, and returns true
\* exactly when every path from the entry to b passes through a.
C2_DominatesIsDominance ==
    (ret.op = "dominates" /\ ret.a \in ReachableSet /\ ret.b \in ReachableSet) =>
        /\ ret.status = "returned"
        /\ ret.val = RefDominates(ret.a, ret.b)

\* The strict dominators of v, the entry first and the immediate dominator
\* of v last.
RefDominatorsOf(v) ==
    [k \in 1 .. Cardinality(StrictDominators(v)) |->
        CHOOSE a \in StrictDominators(v) : Cardinality(StrictDominators(a)) = k - 1]

\* C3: dominatorsOf(v) is the entry followed by the other strict dominators
\* of v in order of increasing proximity to v, the immediate dominator last
\* (stated for the vertices other than the entry of an analyzer built with
\* numVertices = n).
C3_EntryFirstIdomLast ==
    (ret.op = "dominatorsOf" /\ ret.a \in ReachableSet \ {entry}
        /\ numVertices = NumReachable) =>
        /\ ret.status = "returned"
        /\ ret.val = RefDominatorsOf(ret.a)

\* C4: for every reachable v, the entry included, dominatorsOf(v) does not
\* contain v.
C4_StrictDominatorsOnly ==
    (ret.op = "dominatorsOf" /\ ret.a \in ReachableSet /\ ret.status = "returned") =>
        \A j \in 1 .. Len(ret.val) : ret.val[j] # ret.a

\* C5: a query with a vertex that m_vertexIndex does not hold ends in an
\* error and returns no value.
C5_AbsentVertexRejected ==
    (ret.op # "none" /\ ret.absent # {}) => ret.status = "error"

\* C6: after construction no query changes vertices(), vertexIndices(),
\* immediateDominators() or dominatorTree().
C6_QueriesReadOnly ==
    [][pc = "done" => UNCHANGED memberVars]_vars

====
